---- MODULE Spec2Model ----
(***************************************************************************)
(* phono-sim: IPA string -> phoneme tokens -> syllable records -> padded   *)
(* word bit vector.  Model of BaseBitArraySpecification (tokenizer and     *)
(* feature encoder) and BitArrayGenerator (syllabifier and aggregator).    *)
(*                                                                         *)
(* Conventions.  An IPA string is a sequence of one-character strings; a   *)
(* phoneme is a non-empty such sequence.  A bitarray is a sequence over    *)
(* {0,1}.  A syllable record (a Python dict) is a function whose domain is *)
(* a subset of {"onset","nucleus","coda"}.  Python's True / False feature  *)
(* values are written "True" / "False"; categorical values are other       *)
(* strings.  Cursors (start, i) are 0-based as in the code; sequences are  *)
(* 1-based, so tokens[i] of the code is tokens[i + 1] here.                *)
(***************************************************************************)
EXTENDS Integers, Sequences, FiniteSets, TLC

(* ---------------------------- bounds ----------------------------------- *)
MaxLen == 4
MaxSyllables == 2
MaxColumns == 2
MaxWords == 2
MaxFrequency == 2
MaxSpecs == 2
MaxWordLen == 5

(* ---------------------------- schema ----------------------------------- *)
\* Characters an input may contain; "x" occurs in no phoneme.
Alphabet == {"t", "S", "q", "a", "i", "x"}

\* Vowel set handed to the constructor (language module VOWELS_SET).
VOWELS_SET == {<<"a">>, <<"i">>, <<"a", "i">>}

\* Phoneme -> feature map (language module PHONEME_FEATURES).  As "ɐ" and
\* "iə" of en_gb, <<"q">> has features but is missing from VOWELS_SET, so the
\* program handles it as a consonant whose consonant encoding is all zero.
PHONEME_FEATURES ==
    (<<"t">> :> [voiced |-> "False", place |-> "alveolar", manner |-> "plosive"])
 @@ (<<"S">> :> [voiced |-> "False", place |-> "post-alveolar", manner |-> "fricative"])
 @@ (<<"t", "S">> :> [voiced |-> "False", place |-> "post-alveolar", manner |-> "affricate"])
 @@ (<<"q">> :> [low |-> "True", central |-> "True", round |-> "False"])
 @@ (<<"a">> :> [low |-> "True", front |-> "True", round |-> "False"])
 @@ (<<"i">> :> [high |-> "True", front |-> "True", round |-> "False"])
 @@ (<<"a", "i">> :> [high |-> "True", low |-> "True", long |-> "True"])

\* Insertion order of the keys of PHONEME_FEATURES.
PhonemeKeys ==
    << <<"t">>, <<"S">>, <<"t", "S">>, <<"q">>, <<"a">>, <<"i">>, <<"a", "i">> >>

\* Column sets per feature type (language module FEATURES), each set written
\* in the order its iteration yields.
FEATURES == [consonant |-> <<"fricative", "alveolar", "affricate">>,
             vowel     |-> <<"low", "high", "long">>]

\* Column names in use: those of FEATURES, and three more for direct calls of
\* the feature encoder.
ColumnNames == {"affricate", "alveolar", "fricative", "high", "long", "low",
                "place", "place=alveolar", "voiced"}

\* Python's str ordering on the column names in use.
StrRank == [c \in ColumnNames |->
              CASE c = "affricate"      -> 1
                [] c = "alveolar"       -> 2
                [] c = "fricative"      -> 3
                [] c = "high"           -> 4
                [] c = "long"           -> 5
                [] c = "low"            -> 6
                [] c = "place"          -> 7
                [] c = "place=alveolar" -> 8
                [] c = "voiced"         -> 9]

\* col.split("=") on the column names in use.
split(col) == IF col = "place=alveolar" THEN <<"place", "alveolar">> ELSE <<col>>

(* ---------------------------- Python helpers --------------------------- *)
Min(a, b) == IF a < b THEN a ELSE b
Max(a, b) == IF a < b THEN b ELSE a

\* s[lo:hi] for lo >= 0; a negative hi counts from the end.
PySlice(s, lo, hi) ==
    LET h == IF hi < 0 THEN Max(0, hi + Len(s)) ELSE Min(hi, Len(s))
        l == Min(lo, Len(s))
    IN  IF h <= l THEN << >> ELSE SubSeq(s, l + 1, h)

\* t with x put before its first element that is not smaller than x.
RECURSIVE Insert(_, _)
Insert(x, t) ==
    IF t = << >> THEN <<x>>
    ELSE IF StrRank[x] <= StrRank[Head(t)] THEN <<x>> \o t
    ELSE <<Head(t)>> \o Insert(x, Tail(t))

\* Variant: the elements in the order the iteration yields them.
sorted_asis(s) == s

\* sorted(iterable) as a tuple; s lists the iterable in iteration order.
RECURSIVE sorted(_)
sorted(s) == IF s = << >> THEN << >> ELSE Insert(Head(s), sorted(Tail(s)))

\* a ^ b on bitarrays of equal length.
BitXor(a, b) == [k \in 1..Len(a) |-> IF a[k] # b[k] THEN 1 ELSE 0]

\* a | b on bitarrays of equal length.
BitOr(a, b) == [k \in 1..Len(a) |-> IF a[k] = 1 \/ b[k] = 1 THEN 1 ELSE 0]

\* sum(bits)
RECURSIVE Sum(_)
Sum(b) == IF b = << >> THEN 0 ELSE b[1] + Sum(Tail(b))

Zeros(n) == [k \in 1..n |-> 0]

(* ---------------------------- BaseBitArraySpecification ---------------- *)
\* Result of a failed search.
None == << >>

\* self._vowels
vowels == VOWELS_SET

\* self._phoneme_features
phoneme_features == PHONEME_FEATURES

\* sorted(keys, key=len, reverse=True): stable, longest first.
RECURSIVE ByLenDesc(_, _)
ByLenDesc(keys, l) ==
    IF l = 0 THEN << >>
    ELSE SelectSeq(keys, LAMBDA p : Len(p) = l) \o ByLenDesc(keys, l - 1)

RECURSIVE MaxLenOf(_)
MaxLenOf(keys) ==
    IF keys = << >> THEN 0 ELSE Max(Len(Head(keys)), MaxLenOf(Tail(keys)))

phones_sorted == ByLenDesc(PhonemeKeys, MaxLenOf(PhonemeKeys))

max_phoneme_size == MaxLenOf(phones_sorted)

sort_features(features) == [feat \in DOMAIN features |-> sorted(features[feat])]

\* Tuple of (key, value) pairs of the phoneme's feature map, as a set of pairs.
get_phoneme_features(phoneme) ==
    {<<k, phoneme_features[phoneme][k]>> : k \in DOMAIN phoneme_features[phoneme]}

\* dict(pairs)
dict(pairs) == [k \in {p[1] : p \in pairs} |-> (CHOOSE p \in pairs : p[1] = k)[2]]

\* The bit of one column.  "attr=val": feature_dict.get(attr) == val.
\* Plain: feature_dict.get(col, False) or col in feature_dict.values().
ColumnBit(fd, col) ==
    IF Len(split(col)) > 1
    THEN IF split(col)[1] \in DOMAIN fd /\ fd[split(col)[1]] = split(col)[2]
         THEN 1 ELSE 0
    ELSE IF \/ (col \in DOMAIN fd /\ fd[col] = "True")
            \/ \E k \in DOMAIN fd : fd[k] = col
         THEN 1 ELSE 0

\* int(...) of a plain column: feature_dict.get(col, False) is a categorical
\* value, a string that is no number, and int raises ValueError.
ColumnRaises(fd, col) ==
    /\ Len(split(col)) = 1
    /\ col \in DOMAIN fd
    /\ fd[col] \notin {"True", "False"}

\* One bit per column, in column order, unless a column raises.  No column
\* of FEATURES is an attribute of PHONEME_FEATURES, so no call made by the
\* generator raises.
features_to_bitarray(feature_dict, columns) ==
    LET fd == dict(feature_dict)
    IN  IF \E c \in 1..Len(columns) : ColumnRaises(fd, columns[c])
        THEN [raised |-> "ValueError", value |-> << >>]
        ELSE [raised |-> "none",
              value  |-> [c \in 1..Len(columns) |-> ColumnBit(fd, columns[c])]]

\* What the lru_cache wrapper of features_to_bitarray returns to the caller:
\* the stored vector on a hit, the computed one on a miss.
cached_features_to_bitarray(memo, feature_dict, columns) ==
    IF <<feature_dict, columns>> \in DOMAIN memo
    THEN memo[<<feature_dict, columns>>]
    ELSE features_to_bitarray(feature_dict, columns).value

\* Variant: the caller's segment is or-ed into the stored vector in place.
memo_after_inplace(memo, feature_dict, columns, current_segment) ==
    LET key == <<feature_dict, columns>>
        vec == cached_features_to_bitarray(memo, feature_dict, columns)
        new == [k \in 1..Len(vec) |->
                  IF vec[k] = 1 \/ current_segment[k] = 1 THEN 1 ELSE 0]
    IN  [k \in DOMAIN memo \cup {key} |-> IF k = key THEN new ELSE memo[k]]

\* The lru_cache after a call made with current_segment as the other operand
\* of `|`: a miss stores the computed vector, nothing else changes.
memo_after(memo, feature_dict, columns, current_segment) ==
    LET key == <<feature_dict, columns>>
    IN  [k \in DOMAIN memo \cup {key} |->
           IF k \in DOMAIN memo THEN memo[k]
           ELSE features_to_bitarray(feature_dict, columns).value]

\* First phoneme equal to ipa[:idx], idx from len(ipa) down to 1.
RECURSIVE SearchFrom(_, _)
SearchFrom(ipa, idx) ==
    IF idx = 0 THEN None
    ELSE LET hits == SelectSeq(phones_sorted, LAMBDA phone : PySlice(ipa, 0, idx) = phone)
         IN  IF hits # << >> THEN Head(hits) ELSE SearchFrom(ipa, idx - 1)

search_phonemes(ipa) == SearchFrom(ipa, Len(ipa))

(* ---------------------------- BitArrayGenerator ------------------------ *)
\* self._features
features == sort_features(FEATURES)

\* Variant: one consonant block per syllable instead of two.
max_syllable_length_single == Len(features["consonant"]) + Len(features["vowel"])

max_syllable_length == Len(features["consonant"]) * 2 + Len(features["vowel"])

empty_vector(feature_type) == Zeros(Len(features[feature_type]))

\* Variant: the encoding of the phoneme replaces the segment.
update_array_segment_replace(memo, phoneme, current_segment, feature_type) ==
    cached_features_to_bitarray(memo, get_phoneme_features(phoneme),
                                features[feature_type])

\* current_segment | self.features_to_bitarray(...), read through the cache.
update_array_segment(memo, phoneme, current_segment, feature_type) ==
    BitOr(current_segment,
          cached_features_to_bitarray(memo, get_phoneme_features(phoneme),
                                      features[feature_type]))

\* The cache after update_array_segment.
cache_after(memo, phoneme, current_segment, feature_type) ==
    memo_after(memo, get_phoneme_features(phoneme), features[feature_type],
               current_segment)


\* sorted(record.keys(), reverse=True), over the keys a record can have.
KeysReversed(rec) ==
    SelectSeq(<<"onset", "nucleus", "coda">>, LAMBDA key : key \in DOMAIN rec)

\* arr += rec[key] for each key of KeysReversed(rec)
RECURSIVE AppendFields(_, _, _)
AppendFields(acc, rec, keys) ==
    IF keys = << >> THEN acc
    ELSE AppendFields(acc \o rec[Head(keys)], rec, Tail(keys))

\* Variant: the syllables taken in their original order.
Reversed_forward(s) == s

\* syllables[::-1]
Reversed(s) == [k \in 1..Len(s) |-> s[Len(s) + 1 - k]]

\* The for loop of ipa_to_bitarray from index idx on (enumerate start=1),
\* leaving the loop after the record whose index equals max_syllables.
RECURSIVE ConcatFrom(_, _, _, _)
ConcatFrom(acc, rev, idx, ms) ==
    IF idx > Len(rev) THEN acc
    ELSE LET acc2 == AppendFields(acc, rev[idx], KeysReversed(rev[idx]))
         IN  IF idx = ms THEN acc2 ELSE ConcatFrom(acc2, rev, idx + 1, ms)

\* " ".join(toks)
RECURSIVE Join(_)
Join(toks) ==
    IF toks = << >> THEN << >>
    ELSE IF Len(toks) = 1 THEN toks[1]
    ELSE toks[1] \o <<" ">> \o Join(Tail(toks))

\* Variant: nothing is deleted.
DelKey_kept(rec, key) == rec

\* del rec[key]
DelKey(rec, key) == [k \in DOMAIN rec \ {key} |-> rec[k]]

\* Variant: the deleted coda is handed to the record before the last.
DelCoda_moved(rs) ==
    [k \in 1..Len(rs) |->
        IF k = Len(rs) THEN DelKey(rs[k], "coda")
        ELSE IF k = Len(rs) - 1 THEN rs[k] @@ ("coda" :> rs[Len(rs)]["coda"])
        ELSE rs[k]]

\* del results[-1]["coda"]
DelCoda(rs) == [rs EXCEPT ![Len(rs)] = DelKey(rs[Len(rs)], "coda")]

(* ---------------------------- state ------------------------------------ *)
VARIABLES
    ipa_str,        \* argument of ipa_to_syllable / ipa_to_bitarray
    pc,             \* position of the call in the code
    start,          \* ipa_tokenizer: cursor into ipa_str
    tokens,         \* ipa_tokenizer: tokens emitted so far; later the token list
    warnings,       \* logging.warning records emitted so far
    i,              \* ipa_to_syllable: token cursor
    results,        \* ipa_to_syllable: syllable records
    onset,          \* ipa_to_syllable locals (Unbound outside their scope)
    nucleus,
    coda,
    vowel_start,
    max_syllables,  \* argument of ipa_to_bitarray
    arr,            \* ipa_to_bitarray: bits accumulated / returned
    err,            \* exception raised to the caller, "none" if none
    cache,          \* lru_cache of features_to_bitarray: arguments -> vector
    max_syllables_per_text, \* constructor argument (self._max_syllables_per_text_chunk)
    folded,         \* value returned by fold(arr)
    refolded,       \* value returned by fold(folded)
    feature_dict,   \* features_to_bitarray called directly: its arguments ...
    columns,
    encoded,         \* ... and its outcome
    feature_sets,   \* sort_features: argument, each set in its iteration order
    sorted_features,\* sort_features: value returned
    words,          \* PhonemeEntropyAnalyzer: add_word calls made so far
    onset_counts,   \* PhonemeEntropyAnalyzer: the four Counters
    nucleus_counts,
    coda_counts,
    joint_counts,
    metrics,        \* PhonemeEntropyAnalyzer: value returned by get_entropy_metrics
    specifications, \* IntersectingBitArraySpecification: constructor argument
    merged          \* IntersectingBitArraySpecification: the object built

vars == <<ipa_str, pc, start, tokens, warnings, i, results, onset, nucleus, coda,
          vowel_start, max_syllables, arr, err, cache, max_syllables_per_text,
          folded, refolded, feature_dict, columns, encoded, feature_sets,
          sorted_features, words, onset_counts, nucleus_counts, coda_counts,
          joint_counts, metrics, specifications, merged>>

tokVars == <<start, tokens, warnings>>
sylVars == <<i, results, onset, nucleus, coda, vowel_start>>
aggVars == <<max_syllables, arr>>
foldVars == <<max_syllables_per_text, folded, refolded>>
encVars == <<feature_dict, columns, encoded>>
sortVars == <<feature_sets, sorted_features>>
anaVars == <<words, onset_counts, nucleus_counts, coda_counts, joint_counts,
            metrics>>
\* What a call of the generator leaves alone.
mergeVars == <<specifications, merged>>
genIdle == <<encVars, sortVars, anaVars, mergeVars>>

Unbound == << >>

\* len(tokens) once the tokenizer has returned
n == Len(tokens)

Strings == UNION {[1..l -> Alphabet] : l \in 0..MaxLen}

\* The generator part at rest: no call made, nothing cached.
GenIdle ==
    /\ ipa_str = << >>
    /\ start = 0
    /\ tokens = << >>
    /\ warnings = << >>
    /\ i = 0
    /\ results = << >>
    /\ onset = Unbound
    /\ nucleus = Unbound
    /\ coda = Unbound
    /\ vowel_start = 0
    /\ max_syllables = 0
    /\ arr = << >>
    /\ err = "none"
    /\ cache = << >>
    /\ max_syllables_per_text = 0
    /\ folded = Unbound
    /\ refolded = Unbound

\* No direct call of the feature encoder.
EncIdle == feature_dict = {} /\ columns = << >> /\ encoded = Unbound

\* No call of sort_features under observation.
SortIdle == feature_sets = << >> /\ sorted_features = << >>

\* No analyzer.
AnaIdle ==
    /\ words = << >>
    /\ onset_counts = << >>
    /\ nucleus_counts = << >>
    /\ coda_counts = << >>
    /\ joint_counts = << >>
    /\ metrics = Unbound

\* No merged specification.
MergeIdle == specifications = << >> /\ merged = Unbound

\* A generator built with max_syllables_per_text, and one call of
\* ipa_to_bitarray(ipa_str, max_syllables) about to start.
Init ==
    /\ ipa_str \in Strings
    /\ pc = "tokenize"
    /\ start = 0
    /\ tokens = << >>
    /\ warnings = << >>
    /\ i = 0
    /\ results = << >>
    /\ onset = Unbound
    /\ nucleus = Unbound
    /\ coda = Unbound
    /\ vowel_start = 0
    /\ max_syllables \in 0..MaxSyllables
    /\ arr = << >>
    /\ err = "none"
    /\ cache = << >>
    /\ max_syllables_per_text \in 1..MaxSyllables
    /\ folded = Unbound
    /\ refolded = Unbound
    /\ EncIdle
    /\ SortIdle
    /\ AnaIdle
    /\ MergeIdle

(* ---------------------------- ipa_tokenizer ---------------------------- *)
\* One iteration of `while start <= len(ipa_str)`, or the return.
TokStep ==
    /\ pc = "tokenize"
    /\ IF start <= Len(ipa_str)
       THEN LET phoneme == search_phonemes(
                    PySlice(ipa_str, start,
                            start + Min(max_phoneme_size, Len(ipa_str) - 1)))
            IN  IF phoneme = None
                THEN /\ warnings' = Append(warnings,
                            [fn |-> "ipa_tokenizer",
                             text |-> PySlice(ipa_str, start, max_phoneme_size)])
                     /\ start' = start + 1
                     /\ UNCHANGED <<tokens, pc>>
                ELSE /\ start' = start + Len(phoneme)
                     /\ tokens' = Append(tokens, phoneme)
                     /\ UNCHANGED <<warnings, pc>>
       ELSE /\ pc' = "outer"
            /\ UNCHANGED tokVars
    /\ UNCHANGED <<ipa_str, sylVars, aggVars, err>>
    /\ UNCHANGED <<cache, foldVars, genIdle>>

(* ---------------------------- ipa_to_syllable -------------------------- *)
\* `while i < n`: enter the body (onset = empty_vector) or return results.
OuterLoop ==
    /\ pc = "outer"
    /\ IF i < n
       THEN /\ onset' = empty_vector("consonant")
            /\ pc' = "onset"
       ELSE /\ pc' = "returned"
            /\ UNCHANGED onset
    /\ UNCHANGED <<ipa_str, tokVars, i, results, nucleus, coda, vowel_start,
                   aggVars, err>>
    /\ UNCHANGED <<cache, foldVars, genIdle>>

\* Variant: the onset loop stops after the first token of the input.
OnsetLoopCond_first == i < n /\ tokens[i + 1] \notin vowels /\ i = 0

\* while i < n and tokens[i] not in self._vowels
OnsetLoopCond == i < n /\ tokens[i + 1] \notin vowels

\* 1. One iteration of the onset loop, or its exit.
GatherOnset ==
    /\ pc = "onset"
    /\ IF OnsetLoopCond
       THEN /\ onset' = update_array_segment(cache, tokens[i + 1], onset, "consonant")
            /\ cache' = cache_after(cache, tokens[i + 1], onset, "consonant")
            /\ i' = i + 1
            /\ UNCHANGED pc
       ELSE /\ pc' = "merge"
            /\ UNCHANGED <<onset, i, cache>>
    /\ UNCHANGED <<ipa_str, tokVars, results, nucleus, coda, vowel_start,
                   aggVars, err>>
    /\ UNCHANGED <<foldVars, genIdle>>

\* Variant: the previous coda is dropped instead of merged into the onset.
CompressCoda_dropped(last, on) == on

\* results[-1]["coda"] | onset
CompressCoda(last, on) == BitOr(last["coda"], on)

\* 2. End of input: merge the onset into the previous coda and leave the loop.
\*    Otherwise move a previous coda into the onset; 3. start the nucleus.
Merge ==
    /\ pc = "merge"
    /\ IF i = n
       THEN /\ IF results = << >>
               THEN /\ err' = "IndexError"
                    /\ pc' = "raised"
                    /\ UNCHANGED results
               ELSE IF {"onset", "nucleus", "coda"} \ DOMAIN results[Len(results)] # {}
               THEN /\ err' = "KeyError"
                    /\ pc' = "raised"
                    /\ UNCHANGED results
               ELSE /\ results' = [results EXCEPT ![Len(results)] =
                           [onset   |-> results[Len(results)]["onset"],
                            nucleus |-> results[Len(results)]["nucleus"],
                            coda    |-> CompressCoda(results[Len(results)], onset)]]
                    /\ pc' = "returned"
                    /\ UNCHANGED err
            /\ UNCHANGED <<onset, nucleus, vowel_start>>
       ELSE LET hasCoda == /\ Len(results) > 0
                           /\ "coda" \in DOMAIN results[Len(results)]
            IN  /\ onset' = IF hasCoda
                            THEN CompressCoda(results[Len(results)], onset)
                            ELSE onset
                /\ results' = IF hasCoda /\ tokens[i + 1] \in vowels
                              THEN DelCoda(results)
                              ELSE results
                /\ nucleus' = empty_vector("vowel")
                /\ vowel_start' = i
                /\ IF tokens[i + 1] \in vowels
                   THEN pc' = "nucleus" /\ UNCHANGED err
                   ELSE pc' = "raised" /\ err' = "AssertionError"
    /\ UNCHANGED <<ipa_str, tokVars, i, coda, aggVars>>
    /\ UNCHANGED <<cache, foldVars, genIdle>>

\* Variant: the nucleus takes one vowel token only.
NucleusLoopCond_single == i < n /\ tokens[i + 1] \in vowels /\ i = vowel_start

\* while i < n and tokens[i] in self._vowels
NucleusLoopCond == i < n /\ tokens[i + 1] \in vowels

\* Variant: the first vowel of a nucleus is reported as well.
MultipleVowels_always == TRUE

\* if i != _vowel_start
MultipleVowels == i # vowel_start

\* 3. One iteration of the nucleus loop, or its exit (coda = empty_vector).
GatherNucleus ==
    /\ pc = "nucleus"
    /\ IF NucleusLoopCond
       THEN /\ warnings' = IF MultipleVowels
                           THEN Append(warnings,
                                  [fn |-> "ipa_to_syllable",
                                   text |-> Join(PySlice(tokens, vowel_start, i))])
                           ELSE warnings
            /\ nucleus' = update_array_segment(cache, tokens[i + 1], nucleus, "vowel")
            /\ cache' = cache_after(cache, tokens[i + 1], nucleus, "vowel")
            /\ i' = i + 1
            /\ UNCHANGED <<pc, coda>>
       ELSE /\ coda' = empty_vector("consonant")
            /\ pc' = "coda"
            /\ UNCHANGED <<warnings, nucleus, i, cache>>
    /\ UNCHANGED <<ipa_str, start, tokens, results, onset, vowel_start, aggVars, err>>
    /\ UNCHANGED <<foldVars, genIdle>>

\* 4. One iteration of the coda loop, or its exit.
GatherCoda ==
    /\ pc = "coda"
    /\ IF i < n /\ tokens[i + 1] \notin vowels
       THEN /\ coda' = update_array_segment(cache, tokens[i + 1], coda, "consonant")
            /\ cache' = cache_after(cache, tokens[i + 1], coda, "consonant")
            /\ i' = i + 1
            /\ UNCHANGED pc
       ELSE /\ pc' = "store"
            /\ UNCHANGED <<coda, i, cache>>
    /\ UNCHANGED <<ipa_str, tokVars, results, onset, nucleus, vowel_start,
                   aggVars, err>>
    /\ UNCHANGED <<foldVars, genIdle>>

\* Variant: onset and coda stored under each other's key.
SyllableRecord_swapped(on, nu, co) ==
    LET r1 == [k \in {"nucleus"} |-> nu]
        r2 == IF Sum(co) > 0 THEN r1 @@ ("onset" :> co) ELSE r1
    IN  IF Sum(on) > 0 THEN r2 @@ ("coda" :> on) ELSE r2

\* Variant: the coda is never stored.
SyllableRecord_nocoda(on, nu, co) ==
    LET r1 == [k \in {"nucleus"} |-> nu]
    IN  IF Sum(on) > 0 THEN r1 @@ ("onset" :> on) ELSE r1

\* Variant: the onset is stored even when it is all zero.
SyllableRecord_allonsets(on, nu, co) ==
    LET r1 == [k \in {"nucleus"} |-> nu]
        r2 == IF Sum(co) > 0 THEN r1 @@ ("coda" :> co) ELSE r1
    IN  r2 @@ ("onset" :> on)

\* The record built by step 5 from the three locals.
SyllableRecord(on, nu, co) ==
    LET r1 == [k \in {"nucleus"} |-> nu]
        r2 == IF Sum(co) > 0 THEN r1 @@ ("coda" :> co) ELSE r1
    IN  IF Sum(on) > 0 THEN r2 @@ ("onset" :> on) ELSE r2

\* 5. Append the record, drop the locals, leave the loop at the end of input.
Store ==
    /\ pc = "store"
    /\ results' = Append(results, SyllableRecord(onset, nucleus, coda))
    /\ onset' = Unbound
    /\ nucleus' = Unbound
    /\ coda' = Unbound
    /\ pc' = IF i = n THEN "returned" ELSE "outer"
    /\ UNCHANGED <<ipa_str, tokVars, i, vowel_start, aggVars, err>>
    /\ UNCHANGED <<cache, foldVars, genIdle>>

\* ipa_to_syllable called on its own, on words long enough for three
\* syllables with consonants between them.
WordAlphabet == {"t", "S", "q", "a"}

LongStrings == UNION {[1..l -> WordAlphabet] : l \in 0..MaxWordLen}

InitSyllables ==
    /\ ipa_str \in LongStrings
    /\ pc = "tokenize"
    /\ start = 0
    /\ tokens = << >>
    /\ warnings = << >>
    /\ i = 0
    /\ results = << >>
    /\ onset = Unbound
    /\ nucleus = Unbound
    /\ coda = Unbound
    /\ vowel_start = 0
    /\ max_syllables = 0
    /\ arr = << >>
    /\ err = "none"
    /\ cache = << >>
    /\ max_syllables_per_text = 0
    /\ folded = Unbound
    /\ refolded = Unbound
    /\ EncIdle
    /\ SortIdle
    /\ AnaIdle
    /\ MergeIdle

NextSyllables ==
    \/ TokStep
    \/ OuterLoop
    \/ GatherOnset
    \/ Merge
    \/ GatherNucleus
    \/ GatherCoda
    \/ Store

SpecSyllables == InitSyllables /\ [][NextSyllables]_vars

(* ---------------------------- ipa_to_bitarray -------------------------- *)
\* The for loop over the reversed syllables returned by ipa_to_syllable.
Concat ==
    /\ pc = "returned"
    /\ arr' = ConcatFrom(<< >>, Reversed(results), 1, max_syllables)
    /\ pc' = "pad"
    /\ UNCHANGED <<ipa_str, tokVars, sylVars, max_syllables, err>>
    /\ UNCHANGED <<cache, foldVars, genIdle>>

\* arr += bitarray([0] * (max_syllable_length * max_syllables - len(arr)));
\* a list times a negative number is the empty list, so nothing is raised.
Pad ==
    /\ pc = "pad"
    /\ arr' = arr \o Zeros(Max(0, max_syllable_length * max_syllables - Len(arr)))
    /\ pc' = "done"
    /\ UNCHANGED <<ipa_str, tokVars, sylVars, max_syllables, err>>
    /\ UNCHANGED <<cache, foldVars, genIdle>>

(* ---------------------------- fold ------------------------------------- *)
\* The loop of fold from bit index idx on:
\*   for idx in range(0, max_syllables_per_text * max_syllable_length,
\*                    max_syllable_length): new_arr ^= a[idx : idx + width]
\* `^=` raises ValueError when the slice is not as long as new_arr.
RECURSIVE FoldFrom(_, _, _)
FoldFrom(new_arr, a, idx) ==
    IF idx >= max_syllables_per_text * max_syllable_length
    THEN [raised |-> "none", value |-> new_arr]
    ELSE LET slice == PySlice(a, idx, idx + max_syllable_length)
         IN  IF Len(slice) # Len(new_arr)
             THEN [raised |-> "ValueError", value |-> << >>]
             ELSE FoldFrom(BitXor(new_arr, slice), a, idx + max_syllable_length)

fold(a) == FoldFrom(Zeros(max_syllable_length), a, 0)

\* fold called on the word encoding that ipa_to_bitarray returned.
Fold ==
    /\ pc = "done"
    /\ IF fold(arr).raised = "none"
       THEN /\ folded' = fold(arr).value
            /\ pc' = "folded"
            /\ UNCHANGED err
       ELSE /\ err' = fold(arr).raised
            /\ pc' = "raised"
            /\ UNCHANGED folded
    /\ UNCHANGED <<ipa_str, tokVars, sylVars, aggVars, cache,
                   max_syllables_per_text, refolded, genIdle>>

\* fold called on the vector the first fold returned.
Refold ==
    /\ pc = "folded"
    /\ IF fold(folded).raised = "none"
       THEN /\ refolded' = fold(folded).value
            /\ pc' = "refolded"
            /\ UNCHANGED err
       ELSE /\ err' = fold(folded).raised
            /\ pc' = "raised"
            /\ UNCHANGED refolded
    /\ UNCHANGED <<ipa_str, tokVars, sylVars, aggVars, cache,
                   max_syllables_per_text, folded, genIdle>>

Next ==
    \/ TokStep
    \/ OuterLoop
    \/ GatherOnset
    \/ Merge
    \/ GatherNucleus
    \/ GatherCoda
    \/ Store
    \/ Concat
    \/ Pad
    \/ Fold
    \/ Refold

Spec == Init /\ [][Next]_vars

\* The call runs in one thread that executes its next statement as long as
\* there is one.
SpecFair == Spec /\ WF_vars(Next)

(* ---------------------------- features_to_bitarray, called directly ---- *)
\* Feature maps handed to the encoder, as tuples of (key, value) pairs: a
\* boolean attribute and a categorical one, each present or not.
FeatureMaps ==
    {v \cup p : v \in {{}, {<<"voiced", "True">>}, {<<"voiced", "False">>}},
                p \in {{}, {<<"place", "alveolar">>}, {<<"place", "velar">>}}}

\* Columns handed to the encoder: a boolean attribute, a categorical
\* attribute, a categorical value, and an attr=val column.
EncColumns == {"voiced", "place", "alveolar", "place=alveolar"}

ColumnLists == UNION {[1..l -> EncColumns] : l \in 0..MaxColumns}

\* One call features_to_bitarray(feature_dict, columns) about to start.
InitEncode ==
    /\ GenIdle
    /\ SortIdle
    /\ AnaIdle
    /\ MergeIdle
    /\ pc = "encode"
    /\ feature_dict \in FeatureMaps
    /\ columns \in ColumnLists
    /\ encoded = Unbound

\* The call returns the vector, which the lru_cache wrapper stores under the
\* arguments, or raises, which stores nothing.
Encode ==
    /\ pc = "encode"
    /\ IF features_to_bitarray(feature_dict, columns).raised = "none"
       THEN /\ encoded' = cached_features_to_bitarray(cache, feature_dict, columns)
            /\ cache' = memo_after(cache, feature_dict, columns,
                                   Zeros(Len(columns)))
            /\ pc' = "encoded"
            /\ UNCHANGED err
       ELSE /\ err' = features_to_bitarray(feature_dict, columns).raised
            /\ pc' = "raised"
            /\ UNCHANGED <<encoded, cache>>
    /\ UNCHANGED <<ipa_str, tokVars, sylVars, aggVars, foldVars,
                   feature_dict, columns, sortVars, anaVars, mergeVars>>

NextEncode == Encode

SpecEncode == InitEncode /\ [][NextEncode]_vars

(* ---------------------------- sort_features ---------------------------- *)
\* Column names of the sets handed to sort_features.
SortNames == {"alveolar", "fricative", "place", "place=alveolar"}

\* The ways a set of at most MaxColumns names can come out of its iteration:
\* the sequences without repetition.
IterationOrders ==
    UNION {{q \in [1..l -> SortNames] : \A a, b \in 1..l : q[a] = q[b] => a = b}
           : l \in 0..MaxColumns}

\* One call sort_features(features) about to start, the column set of each
\* feature type in some iteration order.
InitSort ==
    /\ GenIdle
    /\ EncIdle
    /\ AnaIdle
    /\ MergeIdle
    /\ pc = "sort"
    /\ feature_sets \in [{"consonant", "vowel"} -> IterationOrders]
    /\ sorted_features = << >>

SortFeatures ==
    /\ pc = "sort"
    /\ sorted_features' = sort_features(feature_sets)
    /\ pc' = "sorted"
    /\ UNCHANGED <<ipa_str, tokVars, sylVars, aggVars, err, cache, foldVars,
                   encVars, feature_sets, anaVars, mergeVars>>

NextSort == SortFeatures

SpecSort == InitSort /\ [][NextSort]_vars

(* ---------------------------- PhonemeEntropyAnalyzer ------------------- *)
\* Columns of the specification handed to the analyzer: one consonant
\* column and one vowel column, so that every bit pattern of a component can
\* be observed within a few words.
SPEC_FEATURES == [consonant |-> <<"alveolar">>, vowel |-> <<"high">>]

\* spec.empty_vector(feature_type)
spec_empty_vector(feature_type) ==
    Zeros(Len(sort_features(SPEC_FEATURES)[feature_type]))

onset_bits == Len(spec_empty_vector("consonant"))
nucleus_bits == Len(spec_empty_vector("vowel"))
coda_bits == Len(spec_empty_vector("consonant"))

max_onset == 2 ^ onset_bits
max_nucleus == 2 ^ nucleus_bits
max_coda == 2 ^ coda_bits

Ones(w) == [k \in 1..w |-> 1]

\* Syllable triples (onset, nucleus, coda) of the schema's widths that the
\* words are made of.
Syllables ==
    {<<Ones(onset_bits), Zeros(nucleus_bits), Zeros(coda_bits)>>,
     <<Zeros(onset_bits), Ones(nucleus_bits), Ones(coda_bits)>>}

\* SyllableEncoding.syllables of the words: up to MaxSyllables triples.
Encodings == UNION {[1..l -> Syllables] : l \in 0..MaxSyllables}

\* SyllableEncoding.to_tuple
to_tuple(syllables) == syllables

\* counter[key], 0 for a missing key.
Count(counter, key) == IF key \in DOMAIN counter THEN counter[key] ELSE 0

\* Variant: the key is counted once, whatever the frequency.
Inc_once(counter, key, frequency) ==
    [k \in DOMAIN counter \cup {key} |->
        Count(counter, k) + (IF k = key THEN 1 ELSE 0)]

\* counter[key] += frequency; the key exists afterwards.
Inc(counter, key, frequency) ==
    [k \in DOMAIN counter \cup {key} |->
        Count(counter, k) + (IF k = key THEN frequency ELSE 0)]

\* The for loop of add_word on one counter: component 1, 2, 3 of each
\* syllable is its onset, nucleus, coda.
RECURSIVE AddSyllables(_, _, _, _)
AddSyllables(counter, syllables, component, frequency) ==
    IF syllables = << >> THEN counter
    ELSE AddSyllables(Inc(counter, Head(syllables)[component], frequency),
                      Tail(syllables), component, frequency)

\* sum(counts.values())
RECURSIVE SumValues(_)
SumValues(counts) ==
    IF DOMAIN counts = {} THEN 0
    ELSE LET k == CHOOSE x \in DOMAIN counts : TRUE
         IN  counts[k] + SumValues([x \in DOMAIN counts \ {k} |-> counts[x]])

\* The float 0.0 that entropy starts from: the sum of no term.
NoTerms == << >>

\* The terms -p * log2(p) subtracted by the loop, p = count / total: for each
\* positive count, the number of keys that hold it.
Terms(counts) ==
    [c \in {counts[k] : k \in {x \in DOMAIN counts : counts[x] > 0}} |->
        Cardinality({k \in DOMAIN counts : counts[k] = c})]

\* Variant: only a counter with no key returns early, and no count is
\* skipped, so count / total divides by zero when every count is 0.
calculate_entropy_unguarded(counts) ==
    IF DOMAIN counts = {}
    THEN [raised |-> "none", total |-> 0, terms |-> NoTerms]
    ELSE IF SumValues(counts) = 0
    THEN [raised |-> "ZeroDivisionError", total |-> 0, terms |-> NoTerms]
    ELSE [raised |-> "none", total |-> SumValues(counts), terms |-> Terms(counts)]

\* The entropy as the terms of its sum: -sum(count/total * log2(count/total)).
\* With a negative total a positive count gives p < 0 and math.log2(p)
\* raises ValueError (math domain error).
calculate_entropy(counts) ==
    IF SumValues(counts) = 0
    THEN [raised |-> "none", total |-> 0, terms |-> NoTerms]
    ELSE IF SumValues(counts) < 0 /\ \E k \in DOMAIN counts : counts[k] > 0
    THEN [raised |-> "ValueError", total |-> SumValues(counts), terms |-> NoTerms]
    ELSE [raised |-> "none", total |-> SumValues(counts), terms |-> Terms(counts)]

\* unique_patterns / max_patterns as a fraction; 0.0 when max_patterns is 0.
calculate_utilization(unique_patterns, max_patterns) ==
    IF max_patterns > 0
    THEN [num |-> unique_patterns, den |-> max_patterns]
    ELSE [num |-> 0, den |-> 1]

\* Variant: the observations are counted, not the distinct patterns.
len_total(counter) == SumValues(counter)

\* len(counter)
len(counter) == Cardinality(DOMAIN counter)

\* The exceptions of the four calculate_entropy calls, in call order.
entropy_raised ==
    SelectSeq(<<calculate_entropy(onset_counts).raised,
                calculate_entropy(nucleus_counts).raised,
                calculate_entropy(coda_counts).raised,
                calculate_entropy(joint_counts).raised>>,
              LAMBDA r : r # "none")

\* The EntropyMetrics built when no calculate_entropy call raises.
get_entropy_metrics ==
    [total_words             |-> SumValues(joint_counts),
     unique_patterns         |-> len(joint_counts),
     onset_entropy           |-> calculate_entropy(onset_counts),
     nucleus_entropy         |-> calculate_entropy(nucleus_counts),
     coda_entropy            |-> calculate_entropy(coda_counts),
     joint_entropy           |-> calculate_entropy(joint_counts),
     onset_utilization       |-> calculate_utilization(len(onset_counts), max_onset),
     nucleus_utilization     |-> calculate_utilization(len(nucleus_counts), max_nucleus),
     coda_utilization        |-> calculate_utilization(len(coda_counts), max_coda),
     unique_onset_patterns   |-> len(onset_counts),
     unique_nucleus_patterns |-> len(nucleus_counts),
     unique_coda_patterns    |-> len(coda_counts)]

\* PhonemeEntropyAnalyzer(spec): four empty counters, no word added.
InitAnalyzer ==
    /\ GenIdle
    /\ EncIdle
    /\ SortIdle
    /\ MergeIdle
    /\ pc = "analyze"
    /\ words = << >>
    /\ onset_counts = << >>
    /\ nucleus_counts = << >>
    /\ coda_counts = << >>
    /\ joint_counts = << >>
    /\ metrics = Unbound

\* Frequencies handed to add_word: any int is accepted, a negative one too.
Frequencies == {0 - 1} \cup 0..MaxFrequency

\* add_word(encoding, frequency)
AddWord ==
    /\ pc = "analyze"
    /\ Len(words) < MaxWords
    /\ \E syllables \in Encodings, frequency \in Frequencies :
          /\ onset_counts' = AddSyllables(onset_counts, syllables, 1, frequency)
          /\ nucleus_counts' = AddSyllables(nucleus_counts, syllables, 2, frequency)
          /\ coda_counts' = AddSyllables(coda_counts, syllables, 3, frequency)
          /\ joint_counts' = Inc(joint_counts, to_tuple(syllables), frequency)
          /\ words' = Append(words, [syllables |-> syllables, frequency |-> frequency])
    /\ UNCHANGED <<ipa_str, pc, tokVars, sylVars, aggVars, err, cache, foldVars,
                   encVars, sortVars, metrics, mergeVars>>

\* get_entropy_metrics(), the last call observed: the report, or the
\* exception of the first calculate_entropy call that raises.
GetEntropyMetrics ==
    /\ pc = "analyze"
    /\ IF entropy_raised = << >>
       THEN /\ metrics' = get_entropy_metrics
            /\ pc' = "reported"
            /\ UNCHANGED err
       ELSE /\ err' = Head(entropy_raised)
            /\ pc' = "raised"
            /\ UNCHANGED metrics
    /\ UNCHANGED <<ipa_str, tokVars, sylVars, aggVars, cache, foldVars,
                   encVars, sortVars, words, onset_counts, nucleus_counts,
                   coda_counts, joint_counts, mergeVars>>

NextAnalyzer == AddWord \/ GetEntropyMetrics

SpecAnalyzer == InitAnalyzer /\ [][NextAnalyzer]_vars

(* ---------------------------- IntersectingBitArraySpecification -------- *)
\* Phonemes and feature maps of the specifications that are merged.
MergePhonemes == {<<"a">>, <<"q">>}

MergeFeatureMaps == {[low |-> "True", central |-> "True"],
                     [low |-> "True", tense |-> "False"]}

\* Each phoneme of features_per_phoneme is in exactly one of vowels and
\* consonants, and the two sets are disjoint.
SchemaInvariant(spec) ==
    /\ spec.vowels \cap spec.consonants = {}
    /\ DOMAIN spec.phoneme_features \subseteq spec.vowels \cup spec.consonants

\* Specifications that can be handed over: built (BaseBitArraySpecification
\* cannot be built with no phoneme, max() of nothing raises) and satisfying
\* the schema invariant.
ComponentSpecs ==
    {spec \in [vowels : SUBSET MergePhonemes,
               consonants : SUBSET MergePhonemes,
               phoneme_features :
                   UNION {[D -> MergeFeatureMaps] : D \in SUBSET MergePhonemes \ {{}}}] :
        SchemaInvariant(spec)}

\* Variant: a phoneme already present keeps its feature map.
update_keep(d, e) ==
    [k \in DOMAIN d \cup DOMAIN e |-> IF k \in DOMAIN d THEN d[k] ELSE e[k]]

\* d.update(e)
update(d, e) ==
    [k \in DOMAIN d \cup DOMAIN e |-> IF k \in DOMAIN e THEN e[k] ELSE d[k]]

\* The for loop of __init__ over the specifications that are left.
RECURSIVE MergeFrom(_, _)
MergeFrom(acc, specs) ==
    IF specs = << >> THEN acc
    ELSE MergeFrom([vowels           |-> acc.vowels \cup Head(specs).vowels,
                    consonants       |-> acc.consonants \cup Head(specs).consonants,
                    phoneme_features |-> update(acc.phoneme_features,
                                                Head(specs).phoneme_features)],
                   Tail(specs))

\* IntersectingBitArraySpecification(specifications) about to be built.
InitIntersect ==
    /\ GenIdle
    /\ EncIdle
    /\ SortIdle
    /\ AnaIdle
    /\ pc = "intersect"
    /\ specifications \in UNION {[1..l -> ComponentSpecs] : l \in 0..MaxSpecs}
    /\ merged = Unbound

\* __init__: the loop, then super().__init__, where
\* max(len(p) for p in self._phones_sorted) raises ValueError when no
\* phoneme was collected.
Intersect ==
    /\ pc = "intersect"
    /\ LET m == MergeFrom([vowels |-> {}, consonants |-> {}, phoneme_features |-> << >>],
                          specifications)
       IN  IF DOMAIN m.phoneme_features = {}
           THEN /\ err' = "ValueError"
                /\ pc' = "raised"
                /\ UNCHANGED merged
           ELSE /\ merged' = m
                /\ pc' = "merged"
                /\ UNCHANGED err
    /\ UNCHANGED <<ipa_str, tokVars, sylVars, aggVars, cache, foldVars, encVars,
                   sortVars, anaVars, specifications>>

NextIntersect == Intersect

SpecIntersect == InitIntersect /\ [][NextIntersect]_vars

(* ---------------------------- vocabulary of the properties ------------- *)
Phonemes == DOMAIN PHONEME_FEATURES

IsVowel(tok) == tok \in VOWELS_SET

\* Encoding of one token under the columns of a feature type.
Enc(tok, feature_type) ==
    features_to_bitarray(get_phoneme_features(tok), features[feature_type]).value

\* Bitwise OR of the consonant encodings of the tokens toks[from..to].
RECURSIVE OrEnc(_, _, _)
OrEnc(toks, from, to) ==
    IF from > to THEN Zeros(Len(FEATURES["consonant"]))
    ELSE [k \in 1..Len(FEATURES["consonant"]) |->
            IF Enc(toks[from], "consonant")[k] = 1 \/ OrEnc(toks, from + 1, to)[k] = 1
            THEN 1 ELSE 0]

\* Positions (1-based) where a maximal run of vowel tokens starts / ends.
RunStarts(toks) ==
    {p \in 1..Len(toks) : IsVowel(toks[p]) /\ (p = 1 \/ ~IsVowel(toks[p - 1]))}

RunEnds(toks) ==
    {p \in 1..Len(toks) : IsVowel(toks[p]) /\ (p = Len(toks) \/ ~IsVowel(toks[p + 1]))}

NthOf(S, k) == CHOOSE p \in S : Cardinality({q \in S : q <= p}) = k

\* The k-th vowel run of toks is toks[RunStart(toks,k)..RunEnd(toks,k)].
RunStart(toks, k) == NthOf(RunStarts(toks), k)
RunEnd(toks, k) == NthOf(RunEnds(toks), k)
NumRuns(toks) == Cardinality(RunStarts(toks))

\* The longest phoneme that is a prefix of s[p:], None if there is none.
LongestPhonemeAt(s, p) ==
    LET ls == {l \in 1..(Len(s) - p) : SubSeq(s, p + 1, p + l) \in Phonemes}
    IN  IF ls = {} THEN None
        ELSE SubSeq(s, p + 1, p + (CHOOSE l \in ls : \A m \in ls : m <= l))

\* A field of a record, absence read as the all-zero vector of width w.
FieldOrZero(rec, key, w) == IF key \in DOMAIN rec THEN rec[key] ELSE Zeros(w)

\* A field of a record, absence read as no bits at all.
FieldOrNothing(rec, key) == IF key \in DOMAIN rec THEN rec[key] ELSE << >>

ConsonantWidth == Len(FEATURES["consonant"])
VowelWidth == Len(FEATURES["vowel"])
SyllableWidth == 2 * ConsonantWidth + VowelWidth

(* ---------------------------- C1 --------------------------------------- *)
\* C1: every token the tokenizer emits at a cursor position is the longest
\* phoneme of the schema that is a prefix of the input remaining at that
\* position (so "tS" is emitted as the single token tS, not as t then S).
C1_LongestMatch ==
    [][(pc = "tokenize" /\ tokens' # tokens)
          => tokens'[Len(tokens')] = LongestPhonemeAt(ipa_str, start)]_vars

(* ---------------------------- C2 --------------------------------------- *)
\* The consonant cluster between the k-th and the (k+1)-th vowel run.
ClusterOr(k) == OrEnc(tokens, RunEnd(tokens, k) + 1, RunStart(tokens, k + 1) - 1)

\* C2 as stated: for two vowel runs separated by a consonant cluster K, the
\* first run's syllable has no coda and the following syllable has an onset
\* field equal to the OR of the consonant encodings of K.
C2_OnsetFieldEqualsClusterOr ==
    pc = "returned" =>
        \A k \in 1..(NumRuns(tokens) - 1) :
            /\ k + 1 <= Len(results)
            /\ "coda" \notin DOMAIN results[k]
            /\ "onset" \in DOMAIN results[k + 1]
            /\ results[k + 1]["onset"] = ClusterOr(k)

\* C2 amended: for two vowel runs separated by a consonant cluster K, the
\* first run's syllable has no coda; the following syllable has an onset field
\* equal to the OR of the encodings of K when that OR has a set bit, and has
\* no onset field when the OR is all zero.
C2_ClusterGoesToNextOnset ==
    pc = "returned" =>
        \A k \in 1..(NumRuns(tokens) - 1) :
            /\ k + 1 <= Len(results)
            /\ "coda" \notin DOMAIN results[k]
            /\ IF Sum(ClusterOr(k)) > 0
               THEN /\ "onset" \in DOMAIN results[k + 1]
                    /\ results[k + 1]["onset"] = ClusterOr(k)
               ELSE "onset" \notin DOMAIN results[k + 1]

\* Two vowel runs separated by a cluster of two consonant tokens with
\* different encodings, absorbed into the second onset.
C2_Witness ==
    /\ pc = "returned"
    /\ NumRuns(tokens) = 2
    /\ RunStart(tokens, 2) - RunEnd(tokens, 1) = 3
    /\ Enc(tokens[RunEnd(tokens, 1) + 1], "consonant")
         # Enc(tokens[RunEnd(tokens, 1) + 2], "consonant")
    /\ Sum(ClusterOr(1)) = 2
    /\ results[2]["onset"] = ClusterOr(1)

(* ---------------------------- C3 --------------------------------------- *)
\* C3: when the token sequence is empty or contains a vowel token, the list
\* returned by ipa_to_syllable has exactly one record per maximal run of
\* consecutive vowel tokens.
C3_OneSyllablePerVowelRun ==
    (/\ pc = "returned"
     /\ (tokens = << >> \/ \E p \in 1..Len(tokens) : IsVowel(tokens[p])))
        => Len(results) = NumRuns(tokens)

\* Two runs made of three vowel tokens: runs, not vowels, are counted.
C3_Witness ==
    /\ pc = "returned"
    /\ NumRuns(tokens) = 2
    /\ Cardinality({p \in 1..Len(tokens) : IsVowel(tokens[p])}) = 3
    /\ Len(results) = 2

(* ---------------------------- C4 --------------------------------------- *)
\* toks is C+ V C+ with the vowel at position v and every consonant encoding
\* non-zero.
IsCVC(toks, v) ==
    /\ 1 < v
    /\ v < Len(toks)
    /\ IsVowel(toks[v])
    /\ \A p \in (1..Len(toks)) \ {v} :
          ~IsVowel(toks[p]) /\ Sum(Enc(toks[p], "consonant")) > 0

\* C4: a token sequence C+ V C+ whose consonants all have non-zero encodings
\* yields exactly one record with the three fields: onset the OR of the
\* leading consonants, nucleus the vowel's encoding, coda the OR of the
\* trailing consonants.
C4_SingleFullSyllable ==
    pc = "returned" =>
        \A v \in 1..Len(tokens) :
            IsCVC(tokens, v) =>
                /\ Len(results) = 1
                /\ DOMAIN results[1] = {"onset", "nucleus", "coda"}
                /\ results[1]["onset"] = OrEnc(tokens, 1, v - 1)
                /\ results[1]["nucleus"] = Enc(tokens[v], "vowel")
                /\ results[1]["coda"] = OrEnc(tokens, v + 1, Len(tokens))

\* A C+ V C+ word with a two-consonant coda whose onset and coda differ.
C4_Witness ==
    /\ pc = "returned"
    /\ IsCVC(tokens, 2)
    /\ Len(tokens) = 4
    /\ Len(results) = 1
    /\ results[1]["onset"] # results[1]["coda"]

(* ---------------------------- C5 --------------------------------------- *)
\* The tokens end with consonants after at least one vowel.
EndsWithConsonantsAfterVowel(toks) ==
    /\ toks # << >>
    /\ ~IsVowel(toks[Len(toks)])
    /\ \E p \in 1..Len(toks) : IsVowel(toks[p])

\* OR of the consonants after the last vowel run.
TrailingOr(toks) == OrEnc(toks, RunEnd(toks, NumRuns(toks)) + 1, Len(toks))

\* C5 as stated: trailing consonants after a vowel create no extra syllable
\* and the last syllable has a coda field equal to the OR of the encodings of
\* exactly those consonants.
C5_CodaFieldEqualsTrailingOr ==
    (pc = "returned" /\ EndsWithConsonantsAfterVowel(tokens)) =>
        /\ Len(results) = NumRuns(tokens)
        /\ "coda" \in DOMAIN results[Len(results)]
        /\ results[Len(results)]["coda"] = TrailingOr(tokens)

\* C5 amended: trailing consonants after a vowel create no extra syllable;
\* the last syllable has a coda field equal to the OR of the encodings of
\* exactly those consonants when that OR has a set bit, and has no coda field
\* when the OR is all zero.
C5_TrailingConsonantsInLastCoda ==
    (pc = "returned" /\ EndsWithConsonantsAfterVowel(tokens)) =>
        /\ Len(results) = NumRuns(tokens)
        /\ IF Sum(TrailingOr(tokens)) > 0
           THEN /\ "coda" \in DOMAIN results[Len(results)]
                /\ results[Len(results)]["coda"] = TrailingOr(tokens)
           ELSE "coda" \notin DOMAIN results[Len(results)]

\* Two syllables, the second closed by two trailing consonants.
C5_Witness ==
    /\ pc = "returned"
    /\ EndsWithConsonantsAfterVowel(tokens)
    /\ Len(tokens) - RunEnd(tokens, NumRuns(tokens)) = 2
    /\ Sum(TrailingOr(tokens)) = 2
    /\ results[Len(results)]["coda"] = TrailingOr(tokens)

(* ---------------------------- C6 --------------------------------------- *)
\* No record lacks a nucleus or holds an all-zero onset or coda.
WellFormedRecord(rec) ==
    /\ "nucleus" \in DOMAIN rec
    /\ DOMAIN rec \subseteq {"onset", "nucleus", "coda"}
    /\ "onset" \in DOMAIN rec => Sum(rec["onset"]) > 0
    /\ "coda" \in DOMAIN rec => Sum(rec["coda"]) > 0

\* C6: every record of the list has a nucleus and never an all-zero onset or
\* coda, and the record appended by step 5 has an onset exactly when the
\* onset vector has a set bit and a coda exactly when the coda vector has one.
C6_OnlyNonEmptyComponentsStored ==
    [][/\ \A k \in 1..Len(results') : WellFormedRecord(results'[k])
       /\ pc = "store" =>
            /\ Len(results') = Len(results) + 1
            /\ "onset" \in DOMAIN results'[Len(results')] <=> Sum(onset) > 0
            /\ "coda" \in DOMAIN results'[Len(results')] <=> Sum(coda) > 0]_vars

\* A returned list with a record without onset and a record without coda.
C6_Witness ==
    /\ pc = "returned"
    /\ Len(results) = 2
    /\ DOMAIN results[1] = {"nucleus"}
    /\ DOMAIN results[2] = {"onset", "nucleus", "coda"}

(* ---------------------------- C7 --------------------------------------- *)
\* bits [lo, hi) of a bitarray (0-based, hi exclusive)
BitSlice(bits, lo, hi) == PySlice(bits, lo, hi)

\* C7: in the returned word encoding the k-th slice of SyllableWidth bits
\* holds onset, nucleus, coda of the k-th syllable from the end at fixed
\* offsets, an omitted onset or coda being all zero.
C7_FixedOffsets ==
    pc = "done" =>
        \A k \in 0..(max_syllables - 1) :
            BitSlice(arr, k * SyllableWidth, (k + 1) * SyllableWidth) =
                IF k < Len(results)
                THEN FieldOrZero(results[Len(results) - k], "onset", ConsonantWidth)
                     \o results[Len(results) - k]["nucleus"]
                     \o FieldOrZero(results[Len(results) - k], "coda", ConsonantWidth)
                ELSE Zeros(SyllableWidth)

(* ---------------------------- C8 --------------------------------------- *)
\* C8: for max_syllables >= 1 the padding step yields exactly
\* max_syllables * (2 * consonant columns + vowel columns) bits: the bits
\* accumulated from the syllables followed by zeros only.
C8_PaddedToFixedLength ==
    [][(pc = "pad" /\ max_syllables >= 1) =>
          /\ pc' = "done"
          /\ Len(arr') = max_syllables * SyllableWidth
          /\ Len(arr) <= Len(arr')
          /\ SubSeq(arr', 1, Len(arr)) = arr
          /\ \A k \in (Len(arr) + 1)..Len(arr') : arr'[k] = 0]_vars

\* A returned encoding of two slices of which the syllables fill less than one.
C8_Witness ==
    /\ pc = "done"
    /\ max_syllables = 2
    /\ Len(results) = 1
    /\ Len(arr) = 2 * SyllableWidth
    /\ Sum(arr) > 0

(* ---------------------------- C9 --------------------------------------- *)
\* Bits of the last `count` syllables, last syllable first, each as its
\* present fields in the order onset, nucleus, coda.
RECURSIVE LastSyllablesFirst(_, _)
LastSyllablesFirst(syls, count) ==
    IF count = 0 \/ syls = << >> THEN << >>
    ELSE FieldOrNothing(syls[Len(syls)], "onset")
         \o syls[Len(syls)]["nucleus"]
         \o FieldOrNothing(syls[Len(syls)], "coda")
         \o LastSyllablesFirst(SubSeq(syls, 1, Len(syls) - 1), count - 1)

\* C9: for every max_syllables the bits accumulated by ipa_to_bitarray are
\* those of the last max_syllables syllables at most, last syllable first,
\* each as its present fields in the order onset, nucleus, coda; earlier
\* syllables contribute nothing.
C9_LastSyllablesFirst ==
    pc = "pad" => arr = LastSyllablesFirst(results, max_syllables)

\* The same for max_syllables >= 1, where the loop leaves at
\* idx == max_syllables.
LastSyllablesFirstFromOne ==
    (pc = "pad" /\ max_syllables >= 1) =>
        arr = LastSyllablesFirst(results, max_syllables)

(* ---------------------------- C10 -------------------------------------- *)
\* C10: for every max_syllables, 0 included, ipa_to_bitarray never returns a
\* vector longer than max_syllables * max_syllable_length (it fails instead
\* when the accumulated bits exceed that length).
C10_NeverLongerThanTarget ==
    pc = "done" => Len(arr) <= max_syllables * SyllableWidth

(* ---------------------------- C11 -------------------------------------- *)
\* Bit j of the XOR of every slice of SyllableWidth bits of x.
XorOfSlices(x) ==
    [j \in 1..SyllableWidth |->
        Cardinality({k \in 0..((Len(x) \div SyllableWidth) - 1) :
                        x[k * SyllableWidth + j] = 1}) % 2]

\* C11: for a word encoding returned by ipa_to_bitarray with any
\* max_syllables >= 1, equal to the generator's configured
\* max_syllables_per_text or not, fold returns a vector of max_syllable_length
\* bits that is the XOR of every slice of the encoding.
C11_FoldXorsEverySlice ==
    [][(pc = "done" /\ max_syllables >= 1) =>
          (pc' = "folded" /\ folded' = XorOfSlices(arr))]_vars

(* ---------------------------- C12 -------------------------------------- *)
\* C12: for every configured max_syllables_per_text >= 1, fold applied to a
\* vector of one slice width returns it unchanged, so that folding the result
\* of a fold changes nothing.
C12_FoldOfOneSliceIsIdentity ==
    [][pc = "folded" => (pc' = "refolded" /\ refolded' = folded)]_vars

(* ---------------------------- C13 -------------------------------------- *)
\* s is a concatenation of phonemes of the schema.
RECURSIVE IsPhonemeConcat(_)
IsPhonemeConcat(s) ==
    \/ s = << >>
    \/ \E l \in 1..Len(s) :
          /\ SubSeq(s, 1, l) \in Phonemes
          /\ IsPhonemeConcat(SubSeq(s, l + 1, Len(s)))

\* The tokens written one after the other.
RECURSIVE Flatten(_)
Flatten(toks) == IF toks = << >> THEN << >> ELSE Head(toks) \o Flatten(Tail(toks))

\* C13: for an input that is a concatenation of phonemes of the schema, a
\* single one-character phoneme included, the tokens returned by
\* ipa_tokenizer, written one after the other, are the input: no character
\* is dropped.
C13_TokensReproduceInput ==
    (pc = "outer" /\ IsPhonemeConcat(ipa_str)) => Flatten(tokens) = ipa_str

(* ---------------------------- C14 -------------------------------------- *)
\* C14: when no phoneme of the schema starts at the cursor, ipa_tokenizer
\* raises ValueError to its caller; it does not go on to return a token list
\* without the unmatched segment.
C14_UnknownSegmentRaises ==
    [][(/\ pc = "tokenize"
        /\ start < Len(ipa_str)
        /\ LongestPhonemeAt(ipa_str, start) = None)
       => (pc' = "raised" /\ err' = "ValueError")]_vars

(* ---------------------------- C15 -------------------------------------- *)
\* The bit the claim gives a column: for attr=val, 1 iff the map has attr
\* set to val; for a plain column, 1 iff the map has the column set to true
\* or the column name occurs as a value of the map.
ClaimedBit(fd, col) ==
    IF col = "place=alveolar"
    THEN IF "place" \in DOMAIN fd /\ fd["place"] = "alveolar" THEN 1 ELSE 0
    ELSE IF (col \in DOMAIN fd /\ fd[col] = "True") \/ col \in {fd[k] : k \in DOMAIN fd}
         THEN 1 ELSE 0

\* C15: for every feature map and every ordered column list, a plain column
\* naming an attribute that holds a categorical value included,
\* features_to_bitarray returns one bit per column, in column order, each
\* bit as ClaimedBit gives it.
C15_OneBitPerColumn ==
    pc # "encode" =>
        /\ pc = "encoded"
        /\ Len(encoded) = Len(columns)
        /\ \A c \in 1..Len(columns) :
              encoded[c] = ClaimedBit(dict(feature_dict), columns[c])

(* ---------------------------- C16 -------------------------------------- *)
\* C16: every vector held by the cache of features_to_bitarray is the vector
\* computed from its arguments, whatever syllabifier, aggregator or fold
\* steps have run since it was stored: no step modifies a memoized vector,
\* so a later call with the same phoneme and columns returns the same bits
\* as the first.
C16_CachedVectorsUnchanged ==
    \A key \in DOMAIN cache :
        cache[key] = features_to_bitarray(key[1], key[2]).value

\* A word in which a consonant is encoded, or-ed into a cluster that holds
\* other bits, and encoded again from the cache, taken through fold.
C16_Witness ==
    /\ pc = "folded"
    /\ Len(tokens) >= 4
    /\ tokens[1] # tokens[2]
    /\ tokens[1] = tokens[4]
    /\ Enc(tokens[1], "consonant") # Enc(tokens[2], "consonant")
    /\ Sum(Enc(tokens[2], "consonant")) > 0
    /\ <<get_phoneme_features(tokens[1]), features["consonant"]>> \in DOMAIN cache

(* ---------------------------- C17 -------------------------------------- *)
\* The elements of a sequence.
Range(s) == {s[k] : k \in 1..Len(s)}

\* C17: for every feature type, sort_features returns the names of the
\* column set, each once, in ascending str order, and returns the same tuple
\* for every other iteration order of the same set.
C17_SortedWhateverTheOrder ==
    pc = "sorted" =>
        \A feat \in DOMAIN feature_sets :
            LET t == sorted_features[feat]
            IN  /\ Range(t) = Range(feature_sets[feat])
                /\ \A a, b \in 1..Len(t) : a < b => StrRank[t[a]] < StrRank[t[b]]
                /\ \A q \in IterationOrders :
                      Range(q) = Range(feature_sets[feat]) =>
                          sort_features([f \in {feat} |-> q])[feat] = t

\* A set of two columns iterated largest first, an attr=val column among
\* them, and sorted.
C17_Witness ==
    /\ pc = "sorted"
    /\ feature_sets["consonant"] = <<"place=alveolar", "place">>
    /\ sorted_features["consonant"] = <<"place", "place=alveolar">>

(* ---------------------------- C18 -------------------------------------- *)
\* Bit patterns of width w.
Patterns(w) == [1..w -> {0, 1}]

\* Number of syllables of a word whose component (1 onset, 2 nucleus,
\* 3 coda) is the pattern p.
Occurrences(syllables, component, p) ==
    Cardinality({k \in 1..Len(syllables) : syllables[k][component] = p})

\* Sum over the add_word calls of frequency times Occurrences.
WeightedOccurrences(component, p) ==
    Sum([k \in 1..Len(words) |->
            words[k].frequency * Occurrences(words[k].syllables, component, p)])

\* Sum of the frequencies of the calls whose syllable tuple is t.
FrequencyOf(t) ==
    Sum([k \in 1..Len(words) |->
            IF words[k].syllables = t THEN words[k].frequency ELSE 0])

\* C18: after any sequence of add_word calls with frequency >= 1, the count
\* of an onset pattern is the sum over the calls of frequency times the
\* number of syllables of the word with that onset, likewise for nucleus and
\* coda; the count of a syllable tuple is the sum of the frequencies of the
\* calls made with it; total_words is the sum of all frequencies.
C18_CountsAreFrequencySums ==
    (\A k \in 1..Len(words) : words[k].frequency >= 1) =>
        /\ \A p \in Patterns(onset_bits) :
              Count(onset_counts, p) = WeightedOccurrences(1, p)
        /\ \A p \in Patterns(nucleus_bits) :
              Count(nucleus_counts, p) = WeightedOccurrences(2, p)
        /\ \A p \in Patterns(coda_bits) :
              Count(coda_counts, p) = WeightedOccurrences(3, p)
        /\ \A t \in Encodings : Count(joint_counts, t) = FrequencyOf(t)
        /\ pc = "reported" =>
              metrics.total_words = Sum([k \in 1..Len(words) |-> words[k].frequency])

\* Two calls, the first with frequency 2 and a word of two syllables that
\* share their onset, then the report.
C18_Witness ==
    /\ pc = "reported"
    /\ Len(words) = 2
    /\ words[1].frequency = 2
    /\ Len(words[1].syllables) = 2
    /\ words[1].syllables[1] = words[1].syllables[2]
    /\ words[2].frequency = 1
    /\ Len(words[2].syllables) = 1
    /\ words[2].syllables[1] = words[1].syllables[1]
    /\ onset_counts[words[2].syllables[1][1]] = 5
    /\ metrics.total_words = 3

(* ---------------------------- C19 -------------------------------------- *)
\* The float 0.0 exactly: returned, and the sum of no term.
ExactlyZero(e) == e.raised = "none" /\ e.terms = NoTerms

\* C19: get_entropy_metrics reports an entropy of exactly 0.0 for every
\* counter whose total is zero, be it without keys or with keys that all
\* count 0; with no observation all four entropies are 0.0; the call raises
\* only if some counter has a total other than zero, and calculate_entropy
\* of a counter whose total is zero is 0.0 in every state.
C19_ZeroTotalZeroEntropy ==
    /\ pc = "reported" =>
          /\ SumValues(onset_counts) = 0 => ExactlyZero(metrics.onset_entropy)
          /\ SumValues(nucleus_counts) = 0 => ExactlyZero(metrics.nucleus_entropy)
          /\ SumValues(coda_counts) = 0 => ExactlyZero(metrics.coda_entropy)
          /\ SumValues(joint_counts) = 0 => ExactlyZero(metrics.joint_entropy)
    /\ pc = "raised" =>
          \/ SumValues(onset_counts) # 0
          \/ SumValues(nucleus_counts) # 0
          \/ SumValues(coda_counts) # 0
          \/ SumValues(joint_counts) # 0
    /\ SumValues(onset_counts) = 0 => ExactlyZero(calculate_entropy(onset_counts))
    /\ SumValues(nucleus_counts) = 0 => ExactlyZero(calculate_entropy(nucleus_counts))
    /\ SumValues(coda_counts) = 0 => ExactlyZero(calculate_entropy(coda_counts))
    /\ SumValues(joint_counts) = 0 => ExactlyZero(calculate_entropy(joint_counts))

\* A report on counters that have keys, every one with count 0.
C19_Witness ==
    /\ pc = "reported"
    /\ DOMAIN onset_counts # {}
    /\ DOMAIN joint_counts # {}
    /\ \A p \in DOMAIN onset_counts : onset_counts[p] = 0
    /\ \A t \in DOMAIN joint_counts : joint_counts[t] = 0
    /\ ExactlyZero(metrics.onset_entropy)
    /\ ExactlyZero(metrics.joint_entropy)

(* ---------------------------- C20 -------------------------------------- *)
\* A fraction between 0 and 1.
UnitFraction(u) == u.den > 0 /\ 0 <= u.num /\ u.num <= u.den

\* C20: after any sequence of add_word calls whose triples have the
\* schema's widths, the reported numbers of unique onset, nucleus and coda
\* patterns are at most 2^onset_bits, 2^nucleus_bits and 2^coda_bits, and
\* every utilization is between 0 and 1.
C20_UniquePatternsBounded ==
    pc = "reported" =>
        /\ metrics.unique_onset_patterns <= 2 ^ onset_bits
        /\ metrics.unique_nucleus_patterns <= 2 ^ nucleus_bits
        /\ metrics.unique_coda_patterns <= 2 ^ coda_bits
        /\ UnitFraction(metrics.onset_utilization)
        /\ UnitFraction(metrics.nucleus_utilization)
        /\ UnitFraction(metrics.coda_utilization)

\* A report after every pattern of every component has been observed, some
\* of them more than once.
C20_Witness ==
    /\ pc = "reported"
    /\ metrics.unique_onset_patterns = 2 ^ onset_bits
    /\ metrics.unique_nucleus_patterns = 2 ^ nucleus_bits
    /\ metrics.unique_coda_patterns = 2 ^ coda_bits
    /\ metrics.total_words > 2
    /\ metrics.onset_utilization.num = metrics.onset_utilization.den

(* ---------------------------- C21 -------------------------------------- *)
\* Index of the last specification of the list that defines phoneme p.
LastDefining(p) ==
    CHOOSE k \in 1..Len(specifications) :
        /\ p \in DOMAIN specifications[k].phoneme_features
        /\ \A j \in (k + 1)..Len(specifications) :
              p \notin DOMAIN specifications[j].phoneme_features

\* C21: the merged specification has the union of the vowel sets, the union
\* of the consonant sets, and for every phoneme the whole feature map of the
\* last specification in list order that defines it.
C21_UnionAndLastWriterWins ==
    pc = "merged" =>
        /\ merged.vowels = UNION {specifications[k].vowels : k \in 1..Len(specifications)}
        /\ merged.consonants =
              UNION {specifications[k].consonants : k \in 1..Len(specifications)}
        /\ DOMAIN merged.phoneme_features =
              UNION {DOMAIN specifications[k].phoneme_features :
                        k \in 1..Len(specifications)}
        /\ \A p \in DOMAIN merged.phoneme_features :
              merged.phoneme_features[p] =
                  specifications[LastDefining(p)].phoneme_features[p]

\* Two specifications that give the same phoneme different feature maps.
C21_Witness ==
    /\ pc = "merged"
    /\ Len(specifications) = 2
    /\ <<"a">> \in DOMAIN specifications[1].phoneme_features
    /\ <<"a">> \in DOMAIN specifications[2].phoneme_features
    /\ specifications[1].phoneme_features[<<"a">>] #
           specifications[2].phoneme_features[<<"a">>]
    /\ specifications[1].vowels # specifications[2].vowels
    /\ merged.phoneme_features[<<"a">>] = specifications[2].phoneme_features[<<"a">>]

(* ---------------------------- C22 -------------------------------------- *)
\* C22: when every specification of the list satisfies the schema
\* invariant, no phoneme is both in the merged vowel set and in the merged
\* consonant set.
C22_MergedSetsDisjoint ==
    (pc = "merged" /\ \A k \in 1..Len(specifications) :
                         SchemaInvariant(specifications[k]))
        => merged.vowels \cap merged.consonants = {}

(* ---------------------------- C23 -------------------------------------- *)
\* Exceptions that leave ipa_to_syllable.
SyllabifierErrors == {"IndexError", "KeyError", "AssertionError"}

\* C23: for a token sequence that is not empty and holds no vowel token,
\* ipa_to_syllable raises no exception.
C23_NoVowelInputReturns ==
    (/\ pc # "tokenize"
     /\ tokens # << >>
     /\ \A k \in 1..Len(tokens) : ~IsVowel(tokens[k]))
        => ~(pc = "raised" /\ err \in SyllabifierErrors)

(* ---------------------------- C24 -------------------------------------- *)
\* C24: whenever the nucleus step is entered the cursor is on a vowel token,
\* so the assertion `tokens[i] in self._vowels` never fails.
C24_NucleusEnteredOnVowel ==
    /\ ~(pc = "raised" /\ err = "AssertionError")
    /\ (pc = "nucleus" /\ i = vowel_start) => (i < n /\ IsVowel(tokens[i + 1]))

\* The nucleus step entered behind a consonant cluster, a syllable before it.
C24_Witness ==
    /\ pc = "nucleus"
    /\ i = vowel_start
    /\ results # << >>
    /\ i >= 2
    /\ ~IsVowel(tokens[i])
    /\ ~IsVowel(tokens[i - 1])

(* ---------------------------- C25 -------------------------------------- *)
\* C25: a step never removes a record and never changes a record below the
\* last one; in the last record it can only rewrite or delete 'coda', onset
\* and nucleus stay as appended; a step that appends changes no record.
C25_AppendedRecordsFrozen ==
    [][/\ Len(results') >= Len(results)
       /\ \A k \in 1..Len(results) :
            /\ k < Len(results') => results'[k] = results[k]
            /\ DOMAIN results'[k] \ {"coda"} = DOMAIN results[k] \ {"coda"}
            /\ FieldOrNothing(results'[k], "onset") = FieldOrNothing(results[k], "onset")
            /\ FieldOrNothing(results'[k], "nucleus") = FieldOrNothing(results[k], "nucleus")]_vars

\* Three records: the second lost its coda to the onset of the third while
\* the first lay below it, and the third has been appended.
C25_Witness ==
    /\ Len(results) = 3
    /\ Len(tokens) = 5
    /\ ~IsVowel(tokens[2])
    /\ ~IsVowel(tokens[4])
    /\ Sum(Enc(tokens[2], "consonant")) > 0
    /\ Sum(Enc(tokens[4], "consonant")) > 0
    /\ "onset" \in DOMAIN results[2]
    /\ "coda" \notin DOMAIN results[2]
    /\ "onset" \in DOMAIN results[3]

(* ---------------------------- C26 -------------------------------------- *)
\* The set of the tokens tokens[from..to] (1-based, inclusive).
TokenSet(from, to) == {tokens[p] : p \in from..to}

\* The vector with a bit set iff a token of the set S has it set in its
\* encoding; it depends on neither order nor repetition of the tokens.
OrOfSet(S, feature_type) ==
    LET encodings == {Enc(tok, feature_type) : tok \in S}
    IN  [k \in 1..Len(FEATURES[feature_type]) |->
            IF \E e \in encodings : e[k] = 1 THEN 1 ELSE 0]

\* Number of tokens before the cluster or run that ends at the cursor:
\* the last position up to the cursor holding a token of the other class.
ClusterStart(vowelRun) ==
    LET ps == {p \in 0..i : p = 0 \/ IsVowel(tokens[p]) # vowelRun}
    IN  CHOOSE p \in ps : \A q \in ps : q <= p

\* Number of tokens before the onset cluster at the cursor.  The first
\* iteration of the outer loop gathers its onset from the first token; a
\* later one starts behind the coda loop of the iteration before, on a
\* vowel, and gathers no token.
OnsetStart == IF results = << >> THEN 0 ELSE i

\* C26: while and after a cluster of consonant tokens (a run of vowel
\* tokens) is gathered, the accumulated vector has a bit set iff one of the
\* tokens gathered so far has it, whatever their order and repetitions, and
\* it has the column width of its feature type.
C26_ClusterVectorIsOr ==
    /\ pc \in {"onset", "merge"} =>
          /\ onset = OrOfSet(TokenSet(OnsetStart + 1, i), "consonant")
          /\ Len(onset) = ConsonantWidth
    /\ pc = "nucleus" =>
          /\ nucleus = OrOfSet(TokenSet(vowel_start + 1, i), "vowel")
          /\ Len(nucleus) = VowelWidth
    /\ pc \in {"coda", "store"} =>
          /\ nucleus = OrOfSet(TokenSet(vowel_start + 1, ClusterStart(FALSE)), "vowel")
          /\ Len(nucleus) = VowelWidth
          /\ coda = OrOfSet(TokenSet(ClusterStart(FALSE) + 1, i), "consonant")
          /\ Len(coda) = ConsonantWidth

\* An onset cluster of three tokens, the first repeated behind another one
\* with a different non-zero encoding.
C26_Witness ==
    /\ pc = "merge"
    /\ i = 3
    /\ tokens[1] = tokens[3]
    /\ tokens[1] # tokens[2]
    /\ Sum(Enc(tokens[1], "consonant")) > 0
    /\ Sum(Enc(tokens[2], "consonant")) > 0
    /\ Enc(tokens[1], "consonant") # Enc(tokens[2], "consonant")
    /\ Sum(onset) = 2

(* ---------------------------- C27 -------------------------------------- *)
\* The diagnostics of ipa_to_syllable, in the order they were emitted.
MultipleVowelDiagnostics == SelectSeq(warnings, LAMBDA w : w.fn = "ipa_to_syllable")

\* Vowel tokens and vowel runs that begin among the first p tokens.
VowelsUpTo(p) == Cardinality({q \in 1..p : IsVowel(tokens[q])})
RunsUpTo(p) == Cardinality({q \in RunStarts(tokens) : q <= p})

\* C27: when the nucleus loop has left a run of k vowel tokens the coda step
\* is reached (the cursor still behind the last vowel) with nucleus the OR of the k encodings, and the run has added
\* k - 1 multiple-vowel diagnostics (none iff k = 1), each naming the vowels
\* gathered before it; the returned list has one record per run, its nucleus
\* the OR of the encodings of the run.
C27_OneNucleusPerVowelRun ==
    /\ (pc = "coda" /\ i > 0 /\ IsVowel(tokens[i])) =>
          LET k == i - vowel_start
              d == MultipleVowelDiagnostics
          IN  /\ k >= 1
              /\ \A p \in (vowel_start + 1)..i : IsVowel(tokens[p])
              /\ i < n => ~IsVowel(tokens[i + 1])
              /\ vowel_start > 0 => ~IsVowel(tokens[vowel_start])
              /\ nucleus = OrOfSet(TokenSet(vowel_start + 1, i), "vowel")
              /\ Len(d) = VowelsUpTo(i) - RunsUpTo(i)
              /\ Len(d) - (k - 1) = VowelsUpTo(vowel_start) - RunsUpTo(vowel_start)
              /\ \A j \in 1..(k - 1) :
                    d[Len(d) - (k - 1) + j].text =
                        Join(SubSeq(tokens, vowel_start + 1, vowel_start + j))
    /\ (pc = "returned" /\ NumRuns(tokens) > 0) =>
          /\ Len(results) = NumRuns(tokens)
          /\ \A r \in 1..NumRuns(tokens) :
                results[r]["nucleus"] =
                    OrOfSet(TokenSet(RunStart(tokens, r), RunEnd(tokens, r)), "vowel")
          /\ Len(MultipleVowelDiagnostics) = VowelsUpTo(n) - NumRuns(tokens)

\* A run of two different vowel tokens behind a run of one: the second run
\* has emitted the only diagnostic and the coda step is reached.
C27_Witness ==
    /\ pc = "coda"
    /\ i - vowel_start = 2
    /\ vowel_start >= 2
    /\ IsVowel(tokens[1])
    /\ tokens[i] # tokens[i - 1]
    /\ Sum(nucleus) >= 2
    /\ Len(MultipleVowelDiagnostics) = 1
    /\ Len(results) = 1

(* ---------------------------- C28 -------------------------------------- *)
\* C28: in every list returned by ipa_to_syllable no record but the last
\* has a 'coda' field.
C28_OnlyLastHasCoda ==
    pc = "returned" =>
        \A k \in 1..(Len(results) - 1) : "coda" \notin DOMAIN results[k]

\* Two records returned, consonants with non-zero encodings behind both
\* nuclei: the coda of the first went into the onset of the second, the
\* last kept its coda.
C28_Witness ==
    /\ pc = "returned"
    /\ Len(results) = 2
    /\ Len(tokens) = 4
    /\ ~IsVowel(tokens[2])
    /\ Sum(Enc(tokens[2], "consonant")) > 0
    /\ "onset" \in DOMAIN results[2]
    /\ "coda" \in DOMAIN results[2]

(* ---------------------------- C29 -------------------------------------- *)
\* The diagnostics of ipa_tokenizer, in the order they were emitted.
UnknownPhonemeDiagnostics == SelectSeq(warnings, LAMBDA w : w.fn = "ipa_tokenizer")

\* Some character of the input is in no token: it was skipped.
CharacterSkipped == Len(Flatten(tokens)) < Len(ipa_str)

\* C29: when ipa_tokenizer has returned, it has emitted an unknown-phoneme
\* diagnostic iff a character of the input was skipped (none for an input
\* made of known phonemes only), and every diagnostic names a non-empty
\* substring of the input.
C29_DiagnosticIffSkipped ==
    pc # "tokenize" =>
        /\ (UnknownPhonemeDiagnostics # << >>) <=> CharacterSkipped
        /\ \A d \in 1..Len(UnknownPhonemeDiagnostics) :
              \E p \in 0..(Len(ipa_str) - 1) :
                 LET text == UnknownPhonemeDiagnostics[d].text
                 IN  /\ text # << >>
                     /\ text = PySlice(ipa_str, p, p + Len(text))

(* ---------------------------- C30 -------------------------------------- *)
\* Every iteration of the tokenizer loop moves the cursor forward, by the
\* length of the token it commits or by one, and the cursor is never before
\* the end of the committed tokens.
TokenizerCursorAdvances ==
    [][(pc = "tokenize" /\ pc' = "tokenize") =>
          /\ start' > start
          /\ tokens' # tokens => start' = start + Len(tokens'[Len(tokens')])
          /\ start' >= Len(Flatten(tokens'))]_vars

\* The syllabifier's cursor never moves back, and an iteration of the outer
\* loop that stores a record has consumed the tokens of its nucleus.
OuterLoopConsumes ==
    [][/\ i' >= i
       /\ pc' = "store" => i' > vowel_start']_vars

\* The call comes to an end, by a return or by an exception.
Terminates == <>(pc \in {"returned", "raised"})

\* C30: for every finite input the run of ipa_to_syllable ends by returning
\* its list of syllables (the state DONE), never by an exception raised on
\* the way.
C30_EndsInDone == pc = "raised" => err \notin SyllabifierErrors

====
